---- MODULE Spec2Model ----
(***************************************************************************)
(* Model of src/watchdog.py: the permission-history pipeline.             *)
(*                                                                         *)
(*   get_file_content  - reads the tracked file at one commit              *)
(*   parse_permissions - extracts a permission set from the content        *)
(*   compute_diff      - added/removed permissions grouped by service      *)
(*   analyze_repo      - walks the commits oldest to newest                *)
(*   main              - writes the history to data.json                   *)
(*                                                                         *)
(* Text is modelled by TLA+ strings, read character by character.         *)
(* A Python value is a record [t |-> type tag, v |-> payload]:            *)
(*   "str" (v a string), "num" (v the number's lexeme), "bool", "null",   *)
(*   "list" (v a sequence of values), "dict" (v a sequence of             *)
(*   [k |-> key, val |-> value] in insertion order).                      *)
(***************************************************************************)
EXTENDS FiniteSets, Integers, Sequences, TLC

VARIABLES
    repo_path,   \* what the --repo-path argument points at
    commits,     \* the commits of the repository (newest first until reversed)
    pc,          \* position of main/analyze_repo
    i,           \* number of commits the loop of analyze_repo has processed
    prev_perms,  \* analyze_repo: prev_perms
    history,     \* analyze_repo: history
    extracted,   \* the values curr_perms took, one for each completed iteration
    exc,         \* the exception that left analyze_repo, or "none"
    printed,     \* the lines printed to the operator
    data_json,   \* the document main wrote to data.json, or NotWritten
    origin,      \* what the tracked file was written from
    content,     \* input of one call of parse_permissions
    parsed,      \* outcome of that call, or NotCalled
    delta,       \* outcome of one call of compute_diff, or NotComputed
    sets         \* the sets a first pass over the commits collected

vars == <<repo_path, commits, pc, i, prev_perms, history, extracted, exc,
          printed, data_json, origin, content, parsed, delta, sets>>

(***************************************************************************)
(* Characters and strings                                                  *)
(***************************************************************************)

\* s[j] as a one-character string; "" outside the string (s[j:j+1])
Ch(s, j) == IF j >= 1 /\ j <= Len(s) THEN SubSeq(s, j, j) ELSE ""

\* s[j:j+n] == w
At(s, j, w) == j + Len(w) - 1 <= Len(s) /\ SubSeq(s, j, j + Len(w) - 1) = w

\* the index of the first occurrence of the one-character string c in s
\* at or after j, or Len(s) + 1 when there is none
RECURSIVE Find(_, _, _)
Find(s, c, j) ==
    IF j > Len(s) THEN Len(s) + 1
    ELSE IF Ch(s, j) = c THEN j
    ELSE Find(s, c, j + 1)

\* w in s
RECURSIVE ContainsFrom(_, _, _)
ContainsFrom(s, w, j) ==
    IF j + Len(w) - 1 > Len(s) THEN FALSE
    ELSE IF At(s, j, w) THEN TRUE
    ELSE ContainsFrom(s, w, j + 1)

Contains(s, w) == ContainsFrom(s, w, 1)

(***************************************************************************)
(* json.loads, for documents without \u and \b escapes                     *)
(***************************************************************************)

WHITESPACE == {" ", "\t", "\n", "\r"}

Digits == {"0", "1", "2", "3", "4", "5", "6", "7", "8", "9"}

\* characters a JSON string may not contain unescaped (strict mode)
ControlChars == {"\t", "\n", "\r", "\f"}

\* the escapes \" \\ \/ \f \n \r \t
BACKSLASH == [e \in {"\"", "\\", "/", "f", "n", "r", "t"} |->
                 CASE e = "f" -> "\f"
                   [] e = "n" -> "\n"
                   [] e = "r" -> "\r"
                   [] e = "t" -> "\t"
                   [] OTHER -> e]

Str(s) == [t |-> "str", v |-> s]

\* a failed scan (StopIteration / JSONDecodeError)
Fail == [ok |-> FALSE]

Scanned(val, end) == [ok |-> TRUE, val |-> val, end |-> end]

\* first index at or after j that holds no whitespace
RECURSIVE SkipWS(_, _)
SkipWS(s, j) == IF Ch(s, j) \in WHITESPACE THEN SkipWS(s, j + 1) ELSE j

RECURSIVE SkipDigits(_, _)
SkipDigits(s, j) == IF Ch(s, j) \in Digits THEN SkipDigits(s, j + 1) ELSE j

\* end (exclusive) of the match of NUMBER_RE at j, 0 when it does not match:
\* (-?(?:0|[1-9]\d*))(\.\d+)?([eE][-+]?\d+)?
NumberEnd(s, j) ==
    LET a == IF Ch(s, j) = "-" THEN j + 1 ELSE j
        b == IF Ch(s, a) = "0" THEN a + 1
             ELSE IF Ch(s, a) \in Digits THEN SkipDigits(s, a)
             ELSE 0
    IN  IF b = 0 THEN 0
        ELSE LET c == IF Ch(s, b) = "." /\ Ch(s, b + 1) \in Digits
                      THEN SkipDigits(s, b + 1) ELSE b
                 k == IF Ch(s, c + 1) \in {"+", "-"} THEN c + 2 ELSE c + 1
             IN  IF Ch(s, c) \in {"e", "E"} /\ Ch(s, k) \in Digits
                 THEN SkipDigits(s, k) ELSE c

\* py_scanstring: j is the index after the opening quote
RECURSIVE scanstring(_, _, _)
scanstring(s, j, acc) ==
    LET c == Ch(s, j) IN
    IF c = "" THEN Fail
    ELSE IF c = "\"" THEN Scanned(acc, j + 1)
    ELSE IF c = "\\"
         THEN IF Ch(s, j + 1) \in DOMAIN BACKSLASH
              THEN scanstring(s, j + 2, acc \o BACKSLASH[Ch(s, j + 1)])
              ELSE Fail
    ELSE IF c \in ControlChars THEN Fail
    ELSE scanstring(s, j + 1, acc \o c)

\* dict(pairs): a repeated key keeps its first position and its last value
RECURSIVE dict(_, _)
dict(pairs, acc) ==
    IF pairs = <<>> THEN acc
    ELSE LET p == Head(pairs) IN
         IF \E n \in DOMAIN acc : acc[n].k = p.k
         THEN dict(Tail(pairs),
                   [n \in DOMAIN acc |-> IF acc[n].k = p.k THEN p ELSE acc[n]])
         ELSE dict(Tail(pairs), Append(acc, p))

RECURSIVE scan_once(_, _), ArrayItems(_, _, _), ObjectPairs(_, _, _)

\* JSONArray: j is the index after "["
JSONArray(s, j) ==
    LET k == SkipWS(s, j) IN
    IF Ch(s, k) = "]" THEN Scanned([t |-> "list", v |-> <<>>], k + 1)
    ELSE ArrayItems(s, k, <<>>)

ArrayItems(s, j, acc) ==
    LET r == scan_once(s, j) IN
    IF ~r.ok THEN Fail
    ELSE LET k == SkipWS(s, r.end)
             values == Append(acc, r.val)
         IN  IF Ch(s, k) = "]" THEN Scanned([t |-> "list", v |-> values], k + 1)
             ELSE IF Ch(s, k) = "," THEN ArrayItems(s, SkipWS(s, k + 1), values)
             ELSE Fail

\* JSONObject: j is the index after "{"
JSONObject(s, j) ==
    LET k == SkipWS(s, j) IN
    IF Ch(s, k) = "}" THEN Scanned([t |-> "dict", v |-> <<>>], k + 1)
    ELSE IF Ch(s, k) # "\"" THEN Fail
    ELSE ObjectPairs(s, k + 1, <<>>)

\* j is the index after the opening quote of a key
ObjectPairs(s, j, acc) ==
    LET key == scanstring(s, j, "") IN
    IF ~key.ok THEN Fail
    ELSE LET c == SkipWS(s, key.end) IN
    IF Ch(s, c) # ":" THEN Fail
    ELSE LET r == scan_once(s, SkipWS(s, c + 1)) IN
    IF ~r.ok THEN Fail
    ELSE LET k == SkipWS(s, r.end)
             pairs == Append(acc, [k |-> key.val, val |-> r.val])
             n == SkipWS(s, k + 1)
         IN  IF Ch(s, k) = "}"
             THEN Scanned([t |-> "dict", v |-> dict(pairs, <<>>)], k + 1)
             ELSE IF Ch(s, k) # "," THEN Fail
             ELSE IF Ch(s, n) # "\"" THEN Fail
             ELSE ObjectPairs(s, n + 1, pairs)

scan_once(s, j) ==
    LET c == Ch(s, j)
        m == NumberEnd(s, j)
    IN  IF c = "" THEN Fail
        ELSE IF c = "\""
             THEN LET r == scanstring(s, j + 1, "") IN
                  IF r.ok THEN Scanned(Str(r.val), r.end) ELSE Fail
        ELSE IF c = "{" THEN JSONObject(s, j + 1)
        ELSE IF c = "[" THEN JSONArray(s, j + 1)
        ELSE IF At(s, j, "null") THEN Scanned([t |-> "null", v |-> "None"], j + 4)
        ELSE IF At(s, j, "true") THEN Scanned([t |-> "bool", v |-> "True"], j + 4)
        ELSE IF At(s, j, "false") THEN Scanned([t |-> "bool", v |-> "False"], j + 5)
        ELSE IF m # 0 THEN Scanned([t |-> "num", v |-> SubSeq(s, j, m - 1)], m)
        ELSE IF At(s, j, "NaN") THEN Scanned([t |-> "num", v |-> "nan"], j + 3)
        ELSE IF At(s, j, "Infinity") THEN Scanned([t |-> "num", v |-> "inf"], j + 8)
        ELSE IF At(s, j, "-Infinity") THEN Scanned([t |-> "num", v |-> "-inf"], j + 9)
        ELSE Fail

\* json.loads(s): [ok |-> TRUE, val |-> the value], or [ok |-> FALSE] for
\* JSONDecodeError
json_loads(s) ==
    LET r == scan_once(s, SkipWS(s, 1)) IN
    IF ~r.ok THEN Fail
    ELSE IF SkipWS(s, r.end) # Len(s) + 1 THEN Fail
    ELSE [ok |-> TRUE, val |-> r.val]

(***************************************************************************)
(* parse_permissions                                                       *)
(***************************************************************************)

\* the optional content returned by get_file_content
None == [some |-> FALSE, s |-> ""]

Some(s) == [some |-> TRUE, s |-> s]

\* outcome of a call: the value returned, or the exception raised
Returned(perms) == [raised |-> "none", perms |-> perms]

Raised(e) == [raised |-> e, perms |-> {}]

\* line boundaries of str.splitlines and the whitespace of str.strip
LineBreaks == {"\n", "\r", "\f"}

StripChars == {" ", "\t", "\n", "\r", "\f"}

\* index of the first line boundary of s at or after j, Len(s) + 1 if none
RECURSIVE LineEnd(_, _)
LineEnd(s, j) ==
    IF j > Len(s) \/ Ch(s, j) \in LineBreaks THEN j ELSE LineEnd(s, j + 1)

\* content.splitlines()
RECURSIVE splitlines(_)
splitlines(s) ==
    IF s = "" THEN <<>>
    ELSE LET k == LineEnd(s, 1)
             n == IF Ch(s, k) = "\r" /\ Ch(s, k + 1) = "\n" THEN k + 2 ELSE k + 1
         IN  <<SubSeq(s, 1, k - 1)>> \o splitlines(SubSeq(s, n, Len(s)))

RECURSIVE lstrip(_)
lstrip(s) == IF Ch(s, 1) \in StripChars THEN lstrip(SubSeq(s, 2, Len(s))) ELSE s

RECURSIVE rstrip(_)
rstrip(s) ==
    IF Ch(s, Len(s)) \in StripChars THEN rstrip(SubSeq(s, 1, Len(s) - 1)) ELSE s

\* strip that trims the left end only
strip_left(s) == lstrip(s)

\* line.strip()
strip(s) == rstrip(lstrip(s))

\* set([line.strip() for line in content.splitlines() if line.strip()])
LineSet(s) ==
    LET lines == splitlines(s) IN
    {Str(strip(lines[n])) : n \in {m \in DOMAIN lines : strip(lines[m]) # ""}}

\* a value as an element of a set: True == 1 and False == 0 hash alike
SetElem(x) ==
    IF x.t = "bool" THEN [t |-> "num", v |-> IF x.v = "True" THEN "1" ELSE "0"]
    ELSE x

\* set(x): the elements of a list (which must be hashable), the keys of a
\* dict, the characters of a str; TypeError for anything else
set(x) ==
    CASE x.t = "list" ->
           IF \E n \in DOMAIN x.v : x.v[n].t \in {"list", "dict"}
           THEN Raised("TypeError")
           ELSE Returned({SetElem(x.v[n]) : n \in DOMAIN x.v})
      [] x.t = "dict" -> Returned({Str(x.v[n].k) : n \in DOMAIN x.v})
      [] x.t = "str" -> Returned({Str(Ch(x.v, n)) : n \in 1..Len(x.v)})
      [] OTHER -> Raised("TypeError")

\* key in data
HasKey(data, key) == \E n \in DOMAIN data.v : data.v[n].k = key

\* data[key]
Get(data, key) ==
    data.v[CHOOSE n \in DOMAIN data.v : data.v[n].k = key].val

\* positions of data.items() whose value is a list
ListFields(data) == {n \in DOMAIN data.v : data.v[n].val.t = "list"}

\* First that takes the last position
First_last(S) == CHOOSE n \in S : \A m \in S : n >= m

\* the position the loop over data.items() reaches first
First(S) == CHOOSE n \in S : \A m \in S : n <= m

\* parse_permissions that reads a JSON value that is no object and no list
\* line by line
parse_permissions_scalar_lines(c) ==
    IF ~c.some \/ c.s = "" THEN Returned({})
    ELSE LET r == json_loads(c.s)
             data == r.val
         IN  IF ~r.ok THEN Returned(LineSet(c.s))
             ELSE IF data.t = "dict"
                  THEN IF HasKey(data, "valid_permissions")
                       THEN set(Get(data, "valid_permissions"))
                       ELSE IF HasKey(data, "permissions")
                       THEN set(Get(data, "permissions"))
                       ELSE IF ListFields(data) # {}
                       THEN set(data.v[First(ListFields(data))].val)
                       ELSE Returned({})
             ELSE IF data.t = "list" THEN set(data)
             ELSE Returned(LineSet(c.s))

parse_permissions(c) ==
    IF ~c.some \/ c.s = "" THEN Returned({})
    ELSE LET r == json_loads(c.s)
             data == r.val
         IN  IF ~r.ok THEN Returned(LineSet(c.s))
             ELSE IF data.t = "dict"
                  THEN IF HasKey(data, "valid_permissions")
                       THEN set(Get(data, "valid_permissions"))
                       ELSE IF HasKey(data, "permissions")
                       THEN set(Get(data, "permissions"))
                       ELSE IF ListFields(data) # {}
                       THEN set(data.v[First(ListFields(data))].val)
                       ELSE Returned({})
             ELSE IF data.t = "list" THEN set(data)
             ELSE Returned({})

(***************************************************************************)
(* compute_diff                                                            *)
(***************************************************************************)

\* the characters of the model in code point order
CodePoints ==
    "\t\n\f\r !\"#$%&'()*+,-./0123456789:;<=>?@ABCDEFGHIJKLMNOPQRSTUVWXYZ[\\]^_abcdefghijklmnopqrstuvwxyz{|}~"

ord(c) == Find(CodePoints, c, 1)

\* a < b on str
RECURSIVE StrLess(_, _)
StrLess(a, b) ==
    IF b = "" THEN FALSE
    ELSE IF a = "" THEN TRUE
    ELSE IF Ch(a, 1) # Ch(b, 1) THEN ord(Ch(a, 1)) < ord(Ch(b, 1))
    ELSE StrLess(SubSeq(a, 2, Len(a)), SubSeq(b, 2, Len(b)))

\* sorted(S) for a collection of distinct strings
RECURSIVE sorted(_)
sorted(S) ==
    IF S = {} THEN <<>>
    ELSE LET m == CHOOSE x \in S : \A y \in S : ~StrLess(y, x)
         IN  <<m>> \o sorted(S \ {m})

\* Service that splits at the last dot
Service_last(p) ==
    IF Find(p, ".", 1) > Len(p) THEN p
    ELSE LET last == CHOOSE n \in 1..Len(p) :
                        Ch(p, n) = "." /\ \A m \in (n + 1)..Len(p) : Ch(p, m) # "."
         IN  SubSeq(p, 1, last - 1)

\* p.split('.')[0]
Service(p) == SubSeq(p, 1, Find(p, ".", 1) - 1)

\* group_by_service(perms) for a set of str: a mapping in key order, as the
\* sequence of its items [k |-> service, v |-> sorted list of permissions]
group_by_service(perms) ==
    LET keys == sorted({Service(p.v) : p \in perms}) IN
    [n \in DOMAIN keys |->
        [k |-> keys[n],
         v |-> sorted({p.v : p \in {q \in perms : Service(q.v) = keys[n]}})]]

NoDiff == [added |-> <<>>, removed |-> <<>>]

\* compute_diff that groups curr_perms as added, without the difference
compute_diff_all_current(prev, curr) ==
    [raised |-> "none",
     diff |-> [added |-> group_by_service(curr),
               removed |-> group_by_service(prev \ curr)]]

\* compute_diff that groups prev_perms as removed, without the difference
compute_diff_all_previous(prev, curr) ==
    [raised |-> "none",
     diff |-> [added |-> group_by_service(curr \ prev),
               removed |-> group_by_service(prev)]]

\* compute_diff(prev_perms, curr_perms): [raised, diff]; p.split raises
\* AttributeError for an element that is not a str
compute_diff(prev, curr) ==
    LET added == curr \ prev
        removed == prev \ curr
    IN  IF \E p \in added \cup removed : p.t # "str"
        THEN [raised |-> "AttributeError", diff |-> NoDiff]
        ELSE [raised |-> "none",
              diff |-> [added |-> group_by_service(added),
                        removed |-> group_by_service(removed)]]

(***************************************************************************)
(* The repository                                                          *)
(***************************************************************************)

\* largest number of commits of a repository
MaxCommits == 3

\* commit messages
Messages == {"Auto-update perms\n", " Pre-RELEASE 2", "fix auto-update typo"}

\* what `commit.tree / file_pattern` and the read of its data find:
\* no such path, bytes that are not UTF-8, an object that cannot be read,
\* or a readable text
Missing == [kind |-> "missing", text |-> ""]

Undecodable == [kind |-> "undecodable", text |-> ""]

Unreadable == [kind |-> "unreadable", text |-> ""]

Blob(text) == [kind |-> "blob", text |-> text]

\* the tracked file with two texts in the two formats, and without
Trees == {Missing, Blob("a.b\nroot\n"), Blob("[\"a.b\", \"a.c\", \"d.e\"]")}

\* a tracked file that is no list of permissions: not UTF-8, unreadable, or
\* a JSON list of numbers
OddTrees == {Undecodable, Unreadable, Blob("[1]")}

\* a tracked file whose permissions have no dot
DotlessTrees == {Blob("root\n")}

\* what --repo-path can point at
RepoPaths == {"valid", "bare", "not_a_repo", "no_such_path"}

\* largest number of commits of a bare repository
MaxBareCommits == 1

\* message and tracked file of a commit
Commits ==
    (Messages \X Trees) \cup ({"fix auto-update typo"} \X (OddTrees \cup DotlessTrees))

\* the commits repo.iter_commits() lists, newest first; hexsha identifies
\* the commit
iter_commits(f) ==
    [n \in DOMAIN f |-> [hexsha |-> n, message |-> f[n][1], tree |-> f[n][2]]]

\* largest number of commits of what --repo-path points at
MostCommits(path) ==
    CASE path = "valid" -> MaxCommits
      [] path = "bare" -> MaxBareCommits
      [] OTHER -> 0

\* reverse that leaves the list as it is
reverse_kept(seq) == seq

\* list.reverse()
reverse(seq) == [n \in DOMAIN seq |-> seq[Len(seq) + 1 - n]]

(***************************************************************************)
(* get_file_content                                                        *)
(***************************************************************************)

\* [raised, content]: KeyError (no such path) and ValueError (which
\* UnicodeDecodeError is) are caught and give None; any other exception of
\* the read leaves the function
get_file_content(commit) ==
    CASE commit.tree.kind = "missing" -> [raised |-> "none", content |-> None]
      [] commit.tree.kind = "undecodable" -> [raised |-> "none", content |-> None]
      [] commit.tree.kind = "unreadable" -> [raised |-> "OSError", content |-> None]
      [] OTHER -> [raised |-> "none", content |-> Some(commit.tree.text)]

(***************************************************************************)
(* analyze_repo: the body of the loop                                      *)
(***************************************************************************)

UpperCase == "ABCDEFGHIJKLMNOPQRSTUVWXYZ"

LowerCase == "abcdefghijklmnopqrstuvwxyz"

\* s.lower()
RECURSIVE lower(_)
lower(s) ==
    IF s = "" THEN ""
    ELSE LET c == Ch(s, 1)
             n == Find(UpperCase, c, 1)
         IN  (IF n <= Len(UpperCase) THEN Ch(LowerCase, n) ELSE c)
                 \o lower(SubSeq(s, 2, Len(s)))

is_auto_update(commit) == Contains(commit.message, "Auto-update")

is_release(commit) == Contains(lower(commit.message), "release")

\* count that counts the buckets
count_buckets(mapping) == Len(mapping)

\* sum(len(v) for v in mapping.values())
RECURSIVE count(_)
count(mapping) ==
    IF mapping = <<>> THEN 0 ELSE Len(Head(mapping).v) + count(Tail(mapping))

\* all_services without the test for a dot
all_services_keys(curr) == {Service(p.v) : p \in curr}

\* set(p.split('.')[0] for p in curr_perms if '.' in p)
all_services(curr) == {Service(p.v) : p \in {q \in curr : Contains(q.v, ".")}}

\* commit_data (author and date are copied from the commit like hash)
commit_data(commit, curr, diff) ==
    [hash |-> commit.hexsha,
     message |-> strip(commit.message),
     stats |-> [total_permissions |-> Cardinality(curr),
                service_count |-> Cardinality(all_services(curr)),
                added_count |-> count(diff.added),
                removed_count |-> count(diff.removed)],
     diff |-> diff]

\* appends with the message filter left out: every change is recorded
appends_any_change(commit, prev, curr, diff, hist) ==
    diff.added # <<>> \/ diff.removed # <<>>

\* appends with the test for a change (line 153) left out
appends_unchanged(commit, prev, curr, diff, hist) ==
    LET has_changes == diff.added # <<>> \/ diff.removed # <<>> IN
    \/ is_auto_update(commit)
    \/ is_release(commit)
    \/ (has_changes /\ Len(hist) < 1)

\* appends with the exemption (line 175) for the first two records
appends_two_unmarked(commit, prev, curr, diff, hist) ==
    LET has_changes == diff.added # <<>> \/ diff.removed # <<>> IN
    /\ has_changes \/ (prev = {} /\ curr # {})
    /\ \/ is_auto_update(commit)
       \/ is_release(commit)
       \/ (has_changes /\ Len(hist) < 2)

\* appends with the exemption of the first record (line 175) left out
appends_marked_only(commit, prev, curr, diff, hist) ==
    LET has_changes == diff.added # <<>> \/ diff.removed # <<>> IN
    /\ has_changes \/ (prev = {} /\ curr # {})
    /\ is_auto_update(commit) \/ is_release(commit)

\* the nested conditions of lines 153 and 175, given that line 107 held
appends(commit, prev, curr, diff, hist) ==
    LET has_changes == diff.added # <<>> \/ diff.removed # <<>> IN
    /\ has_changes \/ (prev = {} /\ curr # {})
    /\ \/ is_auto_update(commit)
       \/ is_release(commit)
       \/ (has_changes /\ Len(hist) < 1)

\* advance that keeps the old baseline
advance_stale(prev, curr) == prev

\* prev_perms = curr_perms, at the end of every iteration
advance(prev, curr) == curr

\* an iteration that an exception leaves: history and prev_perms stay
Left(e, prev, hist) ==
    [raised |-> e, history |-> hist, prev_perms |-> prev, curr_perms |-> {}]

\* Diffed with history.insert(0, commit_data) for history.append(commit_data)
Diffed_insert(commit, prev, curr, hist, d) ==
    IF d.raised # "none" THEN Left(d.raised, prev, hist)
    ELSE IF \E p \in curr : p.t # "str" THEN Left("TypeError", prev, hist)
    ELSE [raised |-> "none",
          history |-> IF appends(commit, prev, curr, d.diff, hist)
                      THEN <<commit_data(commit, curr, d.diff)>> \o hist
                      ELSE hist,
          prev_perms |-> advance(prev, curr),
          curr_perms |-> curr]

\* lines 110-178, after diff = compute_diff(prev_perms, curr_perms); the
\* membership test '.' in p raises TypeError for an element that is not a str
Diffed(commit, prev, curr, hist, d) ==
    IF d.raised # "none" THEN Left(d.raised, prev, hist)
    ELSE IF \E p \in curr : p.t # "str" THEN Left("TypeError", prev, hist)
    ELSE [raised |-> "none",
          history |-> IF appends(commit, prev, curr, d.diff, hist)
                      THEN Append(hist, commit_data(commit, curr, d.diff))
                      ELSE hist,
          prev_perms |-> advance(prev, curr),
          curr_perms |-> curr]

\* lines 107-178, after curr_perms = parse_permissions(content)
Compared(commit, prev, hist, perms) ==
    IF perms.raised # "none" THEN Left(perms.raised, prev, hist)
    ELSE IF perms.perms # prev \/ hist = <<>>
         THEN Diffed(commit, prev, perms.perms, hist,
                        compute_diff(prev, perms.perms))
         ELSE [raised |-> "none", history |-> hist,
               prev_perms |-> advance(prev, perms.perms),
               curr_perms |-> perms.perms]

\* Extracted that adds the extracted permissions to those of prev_perms
Extracted_accumulating(commit, prev, hist, file) ==
    IF file.raised # "none" THEN Left(file.raised, prev, hist)
    ELSE Compared(commit, prev, hist,
                  [raised |-> parse_permissions(file.content).raised,
                   perms |-> prev \cup parse_permissions(file.content).perms])

\* lines 104-178, after content = get_file_content(commit, file_pattern)
Extracted(commit, prev, hist, file) ==
    IF file.raised # "none" THEN Left(file.raised, prev, hist)
    ELSE Compared(commit, prev, hist, parse_permissions(file.content))

\* one iteration for `commit`: the exception that leaves it ("none" if it
\* completes) and the values of history, prev_perms and curr_perms it leaves
LoopBody(commit, prev, hist) ==
    Extracted(commit, prev, hist, get_file_content(commit))

(***************************************************************************)
(* main and analyze_repo                                                   *)
(***************************************************************************)

NotCalled == [raised |-> "not called", perms |-> {}]

Absent == [t |-> "absent", v |-> ""]

NotWritten == [written |-> FALSE, doc |-> <<>>]

NotComputed == [raised |-> "not called", diff |-> NoDiff]

\* pc: "main" -> "open" -> "loop" -> "returned" -> "done", or "raised" when an
\* exception leaves the program
Init ==
    /\ repo_path \in RepoPaths
    /\ \E len \in 0..MostCommits(repo_path) : \E f \in [1..len -> Commits] :
          commits = iter_commits(f)
    /\ pc = "main"
    /\ i = 0
    /\ prev_perms = {}
    /\ history = <<>>
    /\ extracted = <<>>
    /\ exc = "none"
    /\ printed = <<>>
    /\ data_json = NotWritten
    /\ origin = Absent
    /\ content = None
    /\ parsed = NotCalled
    /\ delta = NotComputed
    /\ sets = <<>>

\* main, up to the call of analyze_repo
Start ==
    /\ pc = "main"
    /\ pc' = "open"
    /\ printed' = Append(printed, "Analyzing repository")
    /\ UNCHANGED <<repo_path, commits, i, prev_perms, history, extracted, exc,
                   data_json, origin, content, parsed, delta,
                   sets>>

\* git.Repo(repo_path) raises InvalidGitRepositoryError for a directory that
\* is no repository and NoSuchPathError for a path that does not exist
Repo(path) ==
    CASE path = "not_a_repo" -> "InvalidGitRepositoryError"
      [] path = "no_such_path" -> "NoSuchPathError"
      [] OTHER -> "none"

\* analyze_repo, up to the loop
Open ==
    /\ pc = "open"
    /\ LET e == Repo(repo_path) IN
       IF e = "InvalidGitRepositoryError"
       THEN /\ printed' = Append(printed, "Error: not a valid git repository")
            /\ pc' = "returned"
            /\ UNCHANGED <<commits, exc>>
       ELSE IF e # "none"
       THEN /\ exc' = e
            /\ pc' = "raised"
            /\ UNCHANGED <<commits, printed>>
       ELSE IF repo_path = "bare"
       THEN /\ printed' = Append(printed, "Error: bare repository")
            /\ pc' = "returned"
            /\ UNCHANGED <<commits, exc>>
       ELSE /\ commits' = reverse(commits)
            /\ pc' = "loop"
            /\ UNCHANGED <<printed, exc>>
    /\ history' = <<>>
    /\ prev_perms' = {}
    /\ i' = 0
    /\ UNCHANGED <<repo_path, extracted, data_json, origin, content, parsed, delta,
                   sets>>

\* one iteration of `for commit in commits`
Step ==
    /\ pc = "loop"
    /\ i < Len(commits)
    /\ \E r \in {LoopBody(commits[i + 1], prev_perms, history)} :
       /\ history' = r.history
       /\ prev_perms' = r.prev_perms
       /\ IF r.raised = "none"
          THEN /\ i' = i + 1
               /\ extracted' = Append(extracted, r.curr_perms)
               /\ UNCHANGED <<pc, exc>>
          ELSE /\ pc' = "raised"
               /\ exc' = r.raised
               /\ UNCHANGED <<i, extracted>>
    /\ UNCHANGED <<repo_path, commits, printed, data_json, origin, content,
                   parsed, delta, sets>>

\* history.reverse(); return history
Return ==
    /\ pc = "loop"
    /\ i = Len(commits)
    /\ history' = reverse(history)
    /\ pc' = "returned"
    /\ UNCHANGED <<repo_path, commits, i, prev_perms, extracted, exc, printed,
                   data_json, origin, content, parsed, delta,
                   sets>>

\* main, after analyze_repo returned: json.dump(history) to data.json
Write ==
    /\ pc = "returned"
    /\ data_json' = [written |-> TRUE, doc |-> history]
    /\ printed' = Append(printed, "Analysis complete")
    /\ pc' = "done"
    /\ UNCHANGED <<repo_path, commits, i, prev_perms, history, extracted, exc,
                   origin, content, parsed, delta,
                   sets>>

Next == Start \/ Open \/ Step \/ Return \/ Write

Spec == Init /\ [][Next]_vars

\* the program is one sequential thread: while a statement is left to run,
\* it runs. The fairness of Step is weak fairness written out with the
\* condition under which Step is enabled.
FairSpec ==
    /\ Spec
    /\ WF_vars(Start) /\ WF_vars(Open) /\ WF_vars(Return) /\ WF_vars(Write)
    /\ []<>~(pc = "loop" /\ i < Len(commits)) \/ []<><<Step>>_vars

(***************************************************************************)
(* parse_permissions on its own: the contents of a tracked file            *)
(***************************************************************************)

\* longest plain text
MaxLen == 3

\* most fields of a JSON object
MaxFields == 2

TextAlphabet == {"a", ".", "1", " ", "\n", "\r"}

\* the texts of at most n characters
RECURSIVE Texts(_)
Texts(n) ==
    IF n = 0 THEN {""}
    ELSE Texts(n - 1) \cup {s \o c : s \in {x \in Texts(n - 1) : Len(x) = n - 1},
                                    c \in TextAlphabet}

\* a plain-text list with a blank line, a line of spaces and a repeated line
Examples == {"a.b\nc.d\n\n  \na.b\n"}

List(v) == [t |-> "list", v |-> v]

Number(lexeme) == [t |-> "num", v |-> lexeme]

\* plain-text files whose only line is a JSON literal
LiteralLines == {"true\n", "false\n", "null", "\"a.b\"\n", "-1.5e3\n"}

\* values of a field, and documents of their own
FieldValues ==
    {List(<<Str("a.b")>>), List(<<Str("c"), Str("a.b"), Str("c")>>), List(<<>>),
     List(<<List(<<Number("1")>>)>>),
     Number("5"), Str("ab"), [t |-> "null", v |-> "None"]}

Keys == {"valid_permissions", "permissions", "roles", "extra"}

\* the objects of at most MaxFields fields, the keys distinct
Objects ==
    UNION {{[t |-> "dict", v |-> [n \in 1..len |-> [k |-> f[n][1], val |-> f[n][2]]]] :
               f \in {g \in [1..len -> Keys \X FieldValues] :
                         \A a, b \in 1..len : a # b => g[a][1] # g[b][1]}} :
           len \in 0..MaxFields}

\* json.dumps(x), the text of a value
RECURSIVE dumps(_), dumps_items(_, _), dumps_pairs(_, _)
dumps(x) ==
    CASE x.t = "str" -> "\"" \o x.v \o "\""
      [] x.t = "num" -> x.v
      [] x.t = "bool" -> IF x.v = "True" THEN "true" ELSE "false"
      [] x.t = "null" -> "null"
      [] x.t = "list" -> "[" \o dumps_items(x.v, 1) \o "]"
      [] OTHER -> "{" \o dumps_pairs(x.v, 1) \o "}"

dumps_items(v, n) ==
    IF n > Len(v) THEN ""
    ELSE dumps(v[n]) \o (IF n < Len(v) THEN ", " ELSE "") \o dumps_items(v, n + 1)

dumps_pairs(v, n) ==
    IF n > Len(v) THEN ""
    ELSE "\"" \o v[n].k \o "\": " \o dumps(v[n].val)
             \o (IF n < Len(v) THEN ", " ELSE "") \o dumps_pairs(v, n + 1)

\* the file is absent, a plain text, or the text of a JSON value
InitParse ==
    /\ \/ origin = Absent /\ content = None
       \/ \E s \in Texts(MaxLen) \cup Examples \cup LiteralLines :
             origin = [t |-> "text", v |-> s] /\ content = Some(s)
       \/ \E x \in FieldValues : origin = x /\ content = Some(dumps(x))
       \/ \E x \in Objects : origin = x /\ content = Some(dumps(x))
    /\ parsed = NotCalled
    /\ repo_path = "valid"
    /\ commits = <<>>
    /\ pc = "parse"
    /\ i = 0
    /\ prev_perms = {}
    /\ history = <<>>
    /\ extracted = <<>>
    /\ exc = "none"
    /\ printed = <<>>
    /\ data_json = NotWritten
    /\ delta = NotComputed
    /\ sets = <<>>

\* curr_perms = parse_permissions(content)
Parse ==
    /\ pc = "parse"
    /\ parsed = NotCalled
    /\ parsed' = parse_permissions(content)
    /\ UNCHANGED <<repo_path, commits, pc, i, prev_perms, history, extracted, exc,
                   printed, data_json, origin, content, delta, sets>>

SpecParse == InitParse /\ [][Parse]_vars

(***************************************************************************)
(* compute_diff on its own: two permission sets                            *)
(***************************************************************************)

\* most permissions of a set
MaxPerms == 3

\* permission strings: of three segments, of two, of one, with an empty
\* first segment, and with an upper case one
Permissions ==
    {"storage.buckets.get", "storage.buckets.list", "admin", "a", "a.b", ".x",
     "Z.y"}

PermissionSets ==
    {S \in SUBSET {Str(p) : p \in Permissions} : Cardinality(S) <= MaxPerms}

InitDiff ==
    /\ prev_perms \in PermissionSets
    /\ parsed \in {Returned(S) : S \in PermissionSets}
    /\ delta = NotComputed
    /\ pc = "diff"
    /\ repo_path = "valid"
    /\ commits = <<>>
    /\ i = 0
    /\ history = <<>>
    /\ extracted = <<>>
    /\ exc = "none"
    /\ printed = <<>>
    /\ data_json = NotWritten
    /\ origin = Absent
    /\ content = None
    /\ sets = <<>>

\* diff = compute_diff(prev_perms, curr_perms), curr_perms being the set
\* parse_permissions returned
Diff ==
    /\ pc = "diff"
    /\ delta = NotComputed
    /\ delta' = compute_diff(prev_perms, parsed.perms)
    /\ UNCHANGED <<repo_path, commits, pc, i, prev_perms, history, extracted, exc,
                   printed, data_json, origin, content, parsed, sets>>

SpecDiff == InitDiff /\ [][Diff]_vars

(***************************************************************************)
(* The walk as a function of the commit list, and the walk in two passes   *)
(***************************************************************************)

\* one more iteration after the iterations that gave r, unless an exception
\* has left the loop
Iterated(commit, r) ==
    IF r.raised # "none" THEN r ELSE LoopBody(commit, r.prev_perms, r.history)

\* lines 90-178 over the first n commits of cs, cs the oldest first
RECURSIVE Walked(_, _)
Walked(cs, n) ==
    IF n = 0
    THEN [raised |-> "none", history |-> <<>>, prev_perms |-> {}, curr_perms |-> {}]
    ELSE Iterated(cs[n], Walked(cs, n - 1))

\* lines 180-183 after the loop that gave r
Reversed(r) ==
    IF r.raised # "none" THEN [raised |-> r.raised, history |-> <<>>]
    ELSE [raised |-> "none", history |-> reverse(r.history)]

\* analyze_repo on a valid repository whose commits are cs, the oldest first:
\* the history returned, or the exception raised
analyze_repo(cs) == Reversed(Walked(cs, Len(cs)))

\* lines 103-104 for one commit: the set extracted, or the exception raised
extract(commit) ==
    IF get_file_content(commit).raised # "none"
    THEN Raised(get_file_content(commit).raised)
    ELSE parse_permissions(get_file_content(commit).content)

\* the commits of the walk in two passes
PhaseCommits ==
    {<<"fix auto-update typo", Missing>>,
     <<"fix auto-update typo", Blob("a.b\nroot\n")>>,
     <<"fix auto-update typo", Blob("[\"a.b\", \"a.c\", \"d.e\"]")>>,
     <<"Auto-update perms\n", Blob("a.b\nroot\n")>>,
     <<" Pre-RELEASE 2", Blob("[\"a.b\", \"a.c\", \"d.e\"]")>>,
     <<"fix auto-update typo", Unreadable>>,
     <<"fix auto-update typo", Blob("[1]")>>}

\* the commits are in walk order (oldest first) and no set is collected yet
InitTwoPhase ==
    /\ repo_path = "valid"
    /\ \E len \in 0..MaxCommits : \E f \in [1..len -> PhaseCommits] :
          commits = iter_commits(f)
    /\ sets = [k \in DOMAIN commits |-> NotCalled]
    /\ pc = "two passes"
    /\ i = 0
    /\ prev_perms = {}
    /\ history = <<>>
    /\ extracted = <<>>
    /\ exc = "none"
    /\ printed = <<>>
    /\ data_json = NotWritten
    /\ origin = Absent
    /\ content = None
    /\ parsed = NotCalled
    /\ delta = NotComputed

\* first pass: lines 103-104 for any commit whose set is not collected yet
Resolve ==
    /\ pc = "two passes"
    /\ \E k \in DOMAIN commits :
          /\ sets[k] = NotCalled
          /\ \E r \in {extract(commits[k])} :
                IF r.raised = "none"
                THEN sets' = [sets EXCEPT ![k] = r] /\ UNCHANGED <<pc, exc>>
                ELSE pc' = "raised" /\ exc' = r.raised /\ UNCHANGED sets
    /\ UNCHANGED <<repo_path, commits, i, prev_perms, history, extracted, printed,
                   data_json, origin, content, parsed, delta>>

\* second pass: lines 107-178 for the next commit, with the set collected
Fold ==
    /\ pc = "two passes"
    /\ \A k \in DOMAIN commits : sets[k] # NotCalled
    /\ i < Len(commits)
    /\ \E r \in {Compared(commits[i + 1], prev_perms, history, sets[i + 1])} :
          /\ history' = r.history
          /\ prev_perms' = r.prev_perms
          /\ IF r.raised = "none"
             THEN i' = i + 1 /\ UNCHANGED <<pc, exc>>
             ELSE pc' = "raised" /\ exc' = r.raised /\ UNCHANGED i
    /\ UNCHANGED <<repo_path, commits, extracted, printed, data_json, origin,
                   content, parsed, delta, sets>>

\* lines 180-183 after the second pass
Collect ==
    /\ pc = "two passes"
    /\ \A k \in DOMAIN commits : sets[k] # NotCalled
    /\ i = Len(commits)
    /\ history' = reverse(history)
    /\ pc' = "returned"
    /\ UNCHANGED <<repo_path, commits, i, prev_perms, extracted, exc, printed,
                   data_json, origin, content, parsed, delta, sets>>

SpecTwoPhase == InitTwoPhase /\ [][Resolve \/ Fold \/ Collect]_vars

(***************************************************************************)
(* Properties of the walk (specification Spec)                             *)
(*                                                                         *)
(* Once the loop runs, commits is in walk order (oldest first), the        *)
(* commits 1..i have been processed and extracted[k] is the set that       *)
(* parse_permissions returned for the k-th of them.                        *)
(***************************************************************************)

\* the permission set extracted at the k-th commit of the walk; the empty
\* set before the first commit
SetAt(k) == IF k = 0 THEN {} ELSE extracted[k]

\* the permissions in the buckets of a mapping of a diff
Bucketed(mapping) ==
    UNION {{Str(mapping[n].v[m]) : m \in DOMAIN mapping[n].v} : n \in DOMAIN mapping}

\* the diff is one between the sets prev and curr
IsDiffOf(diff, prev, curr) ==
    /\ Bucketed(diff.added) = curr \ prev
    /\ Bucketed(diff.removed) = prev \ curr

\* some permission is added or removed between the commit before the k-th
\* and the k-th
Changed(k) == SetAt(k) \ SetAt(k - 1) # {} \/ SetAt(k - 1) \ SetAt(k) # {}

\* the history holds a record of the k-th commit
Recorded(k) == \E n \in DOMAIN history : history[n].hash = commits[k].hexsha

\* the message contains "Auto-update"
HasAutoUpdate(m) == \E j \in 1..Len(m) : At(m, j, "Auto-update")

\* the message contains "release" in any mix of cases
HasRelease(m) ==
    \E j \in 1..Len(m) :
        \A n \in 1..7 : Ch(m, j + n - 1) \in {Ch("release", n), Ch("RELEASE", n)}

Marked(k) == HasAutoUpdate(commits[k].message) \/ HasRelease(commits[k].message)

\* the part of a permission before its first dot
FirstSegment(p) ==
    CHOOSE w \in {SubSeq(p, 1, n - 1) : n \in 1..Len(p)} :
        /\ Ch(p, Len(w) + 1) = "."
        /\ \A j \in 1..Len(w) : Ch(w, j) # "."

HasDot(p) == \E j \in 1..Len(p) : Ch(p, j) = "."

\* C1: a processed commit has a record in the history if and only if the
\* diff between the set of the commit before it and its own set has a
\* non-empty added or removed mapping, and its message contains
\* "Auto-update", or "release" in any case, or no earlier commit has a record.
C1_Reportability ==
    \A k \in 1..i :
        Recorded(k) <=> /\ Changed(k)
                        /\ \/ Marked(k)
                           \/ ~\E j \in 1..(k - 1) : Recorded(j)

\* three commits processed: the first recorded without a marker, the second
\* changed the set and was not recorded, the third recorded
C1_Witness ==
    /\ pc = "loop" /\ i = 3
    /\ Recorded(1) /\ ~Marked(1)
    /\ Changed(2) /\ ~Marked(2) /\ ~Recorded(2)
    /\ Changed(3) /\ Marked(3) /\ Recorded(3)

\* C2: no record of the history has both diff.added and diff.removed empty,
\* whatever the message and also while no record has been emitted.
C2_EmptyDiffNeverQualifies ==
    /\ \A n \in DOMAIN history :
          history[n].diff.added # <<>> \/ history[n].diff.removed # <<>>
    /\ \A k \in 1..i : ~Changed(k) => ~Recorded(k)

\* the first commit carries a marker and no permissions, the second one is
\* recorded, the third carries a marker and leaves the set as it was
C2_Witness ==
    /\ pc = "loop" /\ i = 3 /\ Len(history) = 1
    /\ Marked(1) /\ SetAt(1) = {}
    /\ Recorded(2)
    /\ Marked(3) /\ SetAt(3) = SetAt(2)

\* what parse_permissions gives for the tracked file at the k-th commit
ExtractAt(k) ==
    IF get_file_content(commits[k]).raised # "none" THEN Raised("read")
    ELSE parse_permissions(get_file_content(commits[k]).content)

\* a set of permission strings was extracted
IsPermissionSet(r) == r.raised = "none" /\ \A p \in r.perms : p.t = "str"

\* C3: the step that processes the first commit with a non-empty set of
\* permissions S, every earlier set being empty, leaves exactly one record in
\* the history: that commit's, with added_count = |S|, removed_count = 0 and
\* service_count = the number of distinct first segments of the permissions
\* of S that contain a dot.
C3_Bootstrap ==
    [][(/\ pc = "loop" /\ i < Len(commits)
        /\ \A k \in 1..i : SetAt(k) = {}
        /\ IsPermissionSet(ExtractAt(i + 1))
        /\ ExtractAt(i + 1).perms # {})
       => /\ pc' = "loop" /\ i' = i + 1
          /\ Len(history') = 1
          /\ history'[1].hash = commits[i + 1].hexsha
          /\ history'[1].stats.added_count = Cardinality(ExtractAt(i + 1).perms)
          /\ history'[1].stats.removed_count = 0
          /\ history'[1].stats.service_count =
                Cardinality({FirstSegment(p.v) :
                                p \in {q \in ExtractAt(i + 1).perms : HasDot(q.v)}})]_vars

\* a first commit without the file, then an unmarked commit that brings two
\* permissions of which one has a dot: one record, 2 added, 0 removed, 1 service
C3_Witness ==
    /\ pc = "loop" /\ i = 2
    /\ SetAt(1) = {} /\ ~Marked(2)
    /\ SetAt(2) = {Str("a.b"), Str("root")}
    /\ Len(history) = 1
    /\ history[1].hash = commits[2].hexsha
    /\ history[1].stats.added_count = 2
    /\ history[1].stats.removed_count = 0
    /\ history[1].stats.service_count = 1

\* C4: after a commit is processed, recorded or not, prev_perms is the set
\* extracted at that commit, and the diff of every record is the diff against
\* the set of the commit just before the record's commit.
C4_BaselineAdvances ==
    /\ i >= 1 => prev_perms = SetAt(i)
    /\ \A k \in 1..i : \A n \in DOMAIN history :
          history[n].hash = commits[k].hexsha
              => IsDiffOf(history[n].diff, SetAt(k - 1), SetAt(k))

\* the second commit changed the set and was not recorded; the third is
\* recorded with the diff against the second, which is not the diff against
\* the first
C4_Witness ==
    /\ pc = "loop" /\ i = 3 /\ Len(history) = 2
    /\ Recorded(1) /\ Changed(2) /\ ~Recorded(2) /\ Recorded(3)
    /\ IsDiffOf(history[2].diff, SetAt(2), SetAt(3))
    /\ ~IsDiffOf(history[2].diff, SetAt(1), SetAt(3))

\* position in the walk of the commit with this hash
PosOf(hash) == CHOOSE k \in DOMAIN commits : commits[k].hexsha = hash

\* C5: the history analyze_repo returns is the records in the reverse of the
\* order they were emitted in, none added, dropped or altered; its first
\* element is the last record emitted, and its records belong to commits of
\* the walk, from newer to older, each commit at most once.
C5_NewestFirst ==
    [][(pc = "loop" /\ pc' = "returned")
       => /\ Len(history') = Len(history)
          /\ \A n \in DOMAIN history : history'[n] = history[Len(history) + 1 - n]
          /\ \A n \in DOMAIN history' :
                \E k \in DOMAIN commits : commits[k].hexsha = history'[n].hash
          /\ \A a, b \in DOMAIN history' :
                a < b => PosOf(history'[a].hash) > PosOf(history'[b].hash)]_vars

\* a history of two records has been returned, the newer commit's first
C5_Witness ==
    /\ pc = "returned" /\ Len(history) = 2
    /\ PosOf(history[1].hash) > PosOf(history[2].hash)

\* C7: a step that processes a commit at which the tracked path does not
\* exist, or its bytes cannot be decoded, or the read fails, gives the empty
\* permission set and the walk goes on to the next commit.
C7_ReadFaultsAbsorbed ==
    [][(/\ pc = "loop" /\ i < Len(commits)
        /\ commits[i + 1].tree.kind \in {"missing", "undecodable", "unreadable"})
       => (pc' = "loop" /\ i' = i + 1 /\ prev_perms' = {})]_vars

\* C8: when the repository path is invalid in any way or the repository is
\* bare, no exception leaves analyze_repo, no commit is walked, a diagnostic
\* is printed, the history returned is empty and main writes the empty
\* document.
C8_ZeroHistory ==
    repo_path # "valid" =>
        /\ pc # "raised" /\ i = 0 /\ history = <<>>
        /\ pc \in {"returned", "done"} => Len(printed) >= 2
        /\ pc = "done" => data_json = [written |-> TRUE, doc |-> <<>>]

(***************************************************************************)
(* Properties of parse_permissions (specification SpecParse)               *)
(***************************************************************************)

\* C6: for every non-empty content parse_permissions returns a set and
\* raises no error.
C6_NeverFails ==
    (parsed # NotCalled /\ content.some /\ content.s # "") => parsed.raised = "none"

\* the elements of a list
Elements(x) == {x.v[n] : n \in DOMAIN x.v}

\* a list whose elements are strings
IsStrList(x) == x.t = "list" /\ \A n \in DOMAIN x.v : x.v[n].t = "str"

\* the position of the field of an object the extractor reads, 0 if none:
\* valid_permissions, else permissions, else the first field holding a list
Chosen(obj) ==
    LET at(key) == {n \in DOMAIN obj.v : obj.v[n].k = key}
        lists == {n \in DOMAIN obj.v : obj.v[n].val.t = "list"}
        least(S) == CHOOSE n \in S : \A m \in S : n <= m
    IN  IF at("valid_permissions") # {} THEN least(at("valid_permissions"))
        ELSE IF at("permissions") # {} THEN least(at("permissions"))
        ELSE IF lists # {} THEN least(lists)
        ELSE 0

\* C9: for the text of an object, parse_permissions returns the elements of
\* the list in the field valid_permissions if present, else in the field
\* permissions if present, else in the first field, in key order, that holds a
\* list, and the empty set if there is no such field; for the text of a list,
\* the elements of the list; for absent or empty content, the empty set.
C9_FieldPriority ==
    parsed # NotCalled =>
        /\ (origin.t = "absent" \/ (origin.t = "text" /\ origin.v = ""))
              => parsed = Returned({})
        /\ (origin.t = "dict" /\ Chosen(origin) = 0) => parsed = Returned({})
        /\ (origin.t = "dict" /\ Chosen(origin) # 0
                /\ IsStrList(origin.v[Chosen(origin)].val))
              => parsed = Returned(Elements(origin.v[Chosen(origin)].val))
        /\ (origin.t = "list" /\ IsStrList(origin))
              => parsed = Returned(Elements(origin))

\* an object without the two named fields, two of its fields holding lists:
\* the first one is read
C9_Witness ==
    /\ parsed # NotCalled
    /\ origin.t = "dict" /\ Len(origin.v) = 2
    /\ origin.v[1].k = "roles" /\ origin.v[1].val = List(<<Str("a.b")>>)
    /\ origin.v[2].k = "extra"
    /\ origin.v[2].val = List(<<Str("c"), Str("a.b"), Str("c")>>)
    /\ parsed = Returned({Str("a.b")})

Blank == {" ", "\t", "\n", "\r", "\f"}

Breaks == {"\n", "\r", "\f"}

\* the lines of s without the whitespace around them, blank lines left out:
\* the pieces of s that hold no line boundary, begin and end with a character
\* that is not whitespace, and have only whitespace between them and the line
\* boundaries (or ends of s) around them
TrimmedLines(s) ==
    {SubSeq(s, p[1], p[2]) :
        p \in {q \in (1..Len(s)) \X (1..Len(s)) :
                 /\ q[1] <= q[2]
                 /\ \A j \in q[1]..q[2] : Ch(s, j) \notin Breaks
                 /\ Ch(s, q[1]) \notin Blank
                 /\ Ch(s, q[2]) \notin Blank
                 /\ \A j \in 1..(q[1] - 1) :
                       (\A m \in j..(q[1] - 1) : Ch(s, m) \notin Breaks)
                           => Ch(s, j) \in Blank
                 /\ \A j \in (q[2] + 1)..Len(s) :
                       (\A m \in (q[2] + 1)..j : Ch(s, m) \notin Breaks)
                           => Ch(s, j) \in Blank}}

\* C10: for non-empty content on which json.loads fails, parse_permissions
\* returns exactly the set of the content's lines with the whitespace around
\* them removed, blank lines discarded and duplicates collapsed.
C10_Fallback ==
    (parsed # NotCalled /\ content.some /\ content.s # "" /\ ~json_loads(content.s).ok)
        => parsed = Returned({Str(line) : line \in TrimmedLines(content.s)})

\* the lines a.b, c.d, an empty line, a line of spaces and a.b again
C10_Witness ==
    /\ content = Some("a.b\nc.d\n\n  \na.b\n")
    /\ ~json_loads(content.s).ok
    /\ parsed = Returned({Str("a.b"), Str("c.d")})

(***************************************************************************)
(* Properties of compute_diff (specification SpecDiff)                     *)
(*                                                                         *)
(* prev_perms is the previous set S1, parsed.perms the current set S2 and  *)
(* delta the outcome of compute_diff(S1, S2).                              *)
(***************************************************************************)

\* C11: the permissions in the buckets of diff.added are exactly S2 minus S1
\* and those in the buckets of diff.removed exactly S1 minus S2, so the two
\* are disjoint; and compute_diff(S, S) has both mappings empty.
C11_Partition ==
    delta # NotComputed =>
        /\ delta.raised = "none"
        /\ Bucketed(delta.diff.added) = parsed.perms \ prev_perms
        /\ Bucketed(delta.diff.removed) = prev_perms \ parsed.perms
        /\ Bucketed(delta.diff.added) \cap Bucketed(delta.diff.removed) = {}
        /\ prev_perms = parsed.perms => delta.diff = NoDiff

\* two sets that share a permission and each have one of their own
C11_Witness ==
    /\ delta # NotComputed
    /\ prev_perms = {Str("a"), Str("admin")}
    /\ parsed.perms = {Str("admin"), Str("a.b")}
    /\ Bucketed(delta.diff.added) = {Str("a.b")}
    /\ Bucketed(delta.diff.removed) = {Str("a")}

\* C12: the added mapping of compute_diff(A, B) is the removed mapping of
\* compute_diff(B, A) and the removed mapping of compute_diff(A, B) is the
\* added mapping of compute_diff(B, A): the same keys, buckets and order.
C12_SwapSymmetry ==
    delta # NotComputed =>
        /\ delta.diff.added = compute_diff(parsed.perms, prev_perms).diff.removed
        /\ delta.diff.removed = compute_diff(parsed.perms, prev_perms).diff.added

\* A and B overlap, and both mappings of the diff have a bucket
C12_Witness ==
    /\ delta # NotComputed
    /\ prev_perms \cap parsed.perms # {}
    /\ delta.diff.added # <<>> /\ delta.diff.removed # <<>>
    /\ delta.diff.added # delta.diff.removed
    /\ compute_diff(parsed.perms, prev_perms).diff.removed = delta.diff.added

\* the grouping key of a permission: the part before its first dot, the
\* whole string when it has no dot
KeyOf(p) == IF HasDot(p) THEN FirstSegment(p) ELSE p

\* the place of a character in the order of the code points
Rank(c) == CHOOSE n \in 1..Len(CodePoints) : Ch(CodePoints, n) = c

\* a comes before b in the lexicographic order of the code points
Precedes(a, b) ==
    \E j \in 1..Len(b) :
        /\ j <= Len(a) + 1
        /\ \A m \in 1..(j - 1) : Ch(a, m) = Ch(b, m)
        /\ j = Len(a) + 1 \/ Rank(Ch(a, j)) < Rank(Ch(b, j))

\* the buckets of the mapping that hold the permission p
BucketsOf(mapping, p) ==
    {n \in DOMAIN mapping : \E m \in DOMAIN mapping[n].v : mapping[n].v[m] = p}

\* the mapping groups the permissions of raw by their keys, in order
Grouped(mapping, raw) ==
    /\ \A p \in raw :
          /\ Cardinality(BucketsOf(mapping, p.v)) = 1
          /\ \A n \in BucketsOf(mapping, p.v) : mapping[n].k = KeyOf(p.v)
    /\ \A n \in DOMAIN mapping :
          /\ mapping[n].v # <<>>
          /\ \A a, b \in DOMAIN mapping[n].v :
                a < b => Precedes(mapping[n].v[a], mapping[n].v[b])
    /\ \A a, b \in DOMAIN mapping : a < b => Precedes(mapping[a].k, mapping[b].k)

\* C13: every permission of the added (removed) raw set lies in exactly one
\* bucket, whose key is the part of the permission before its first dot, or
\* the whole permission when it has no dot; no bucket is empty, each bucket
\* is in ascending order without duplicates and the keys are in ascending order.
C13_Grouping ==
    delta # NotComputed =>
        /\ Grouped(delta.diff.added, parsed.perms \ prev_perms)
        /\ Grouped(delta.diff.removed, prev_perms \ parsed.perms)

\* "admin" under "admin", the two storage permissions under "storage"
C13_Witness ==
    /\ prev_perms = {Str("Z.y")}
    /\ delta.diff.added =
          <<[k |-> "admin", v |-> <<"admin">>],
            [k |-> "storage",
             v |-> <<"storage.buckets.get", "storage.buckets.list">>]>>
    /\ delta.diff.removed = <<[k |-> "Z", v |-> <<"Z.y">>]>>

(***************************************************************************)
(* Properties of the records (specification Spec)                          *)
(***************************************************************************)

\* the places of the permissions in the buckets of a mapping
Cells(mapping) ==
    UNION {{<<n, m>> : m \in DOMAIN mapping[n].v} : n \in DOMAIN mapping}

\* C14: in every record, added_count is the sum of the sizes of the buckets
\* of diff.added and the number of permissions of the commit's set that the
\* set of the commit before lacks, removed_count the same for diff.removed and
\* the other way round, and total_permissions the size of the commit's set,
\* which is the size of the set before + added_count - removed_count.
C14_Stats ==
    \A k \in 1..i : \A n \in DOMAIN history :
        history[n].hash = commits[k].hexsha =>
            LET stats == history[n].stats IN
            /\ stats.added_count = Cardinality(Cells(history[n].diff.added))
            /\ stats.added_count = Cardinality(SetAt(k) \ SetAt(k - 1))
            /\ stats.removed_count = Cardinality(Cells(history[n].diff.removed))
            /\ stats.removed_count = Cardinality(SetAt(k - 1) \ SetAt(k))
            /\ stats.total_permissions = Cardinality(SetAt(k))
            /\ stats.total_permissions =
                  Cardinality(SetAt(k - 1)) + stats.added_count - stats.removed_count

\* a record of a commit that took the set from {a.b, root} to {a.b, a.c, d.e}:
\* 2 added in 2 buckets, 1 removed, 3 = 2 + 2 - 1 in total
C14_Witness ==
    /\ pc = "loop" /\ i = 2 /\ Len(history) = 2
    /\ SetAt(1) = {Str("a.b"), Str("root")}
    /\ history[2].hash = commits[2].hexsha
    /\ Len(history[2].diff.added) = 2
    /\ history[2].stats =
          [total_permissions |-> 3, service_count |-> 2, added_count |-> 2,
           removed_count |-> 1]

\* C15: in every record, service_count is the number of distinct first
\* segments of the permissions of the commit's set that contain a dot; a
\* permission without a dot does not count, although the diff has it in a
\* bucket of its own name.
C15_ServiceCount ==
    \A k \in 1..i : \A n \in DOMAIN history :
        history[n].hash = commits[k].hexsha =>
            /\ history[n].stats.service_count =
                  Cardinality({FirstSegment(p.v) :
                                  p \in {q \in SetAt(k) : HasDot(q.v)}})
            /\ \A p \in SetAt(k) \ SetAt(k - 1) :
                  ~HasDot(p.v) =>
                      \E m \in DOMAIN history[n].diff.added :
                          history[n].diff.added[m].k = p.v

\* the record of a commit with the set {root}: service_count 0, a bucket
\* "root"; then the record of a commit with the set {a.b, root}, which has the
\* two grouping keys "a" and "root": service_count 1
C15_Witness ==
    /\ pc = "loop" /\ i = 2 /\ Len(history) = 2
    /\ SetAt(1) = {Str("root")}
    /\ history[1].stats.service_count = 0
    /\ history[1].stats.total_permissions = 1
    /\ history[1].diff.added = <<[k |-> "root", v |-> <<"root">>]>>
    /\ SetAt(2) = {Str("a.b"), Str("root")}
    /\ history[2].stats.service_count = 1

\* C16: a step of the walk that processes a commit which does not qualify
\* leaves the records as they are and sets prev_perms to the commit's set; a
\* step that processes a qualifying commit appends one record, that commit's,
\* after the records there are and leaves each of those as it is; a step that
\* an exception ends leaves the records as they are.
C16_Frame ==
    [][(pc = "loop" /\ pc' # "returned") =>
          IF pc' = "loop"
          THEN LET curr == extracted'[i + 1]
                   qualifies == /\ curr # prev_perms
                                /\ Marked(i + 1) \/ history = <<>>
               IN  /\ i' = i + 1 /\ commits' = commits /\ prev_perms' = curr
                   /\ ~qualifies => history' = history
                   /\ qualifies =>
                         /\ Len(history') = Len(history) + 1
                         /\ \A n \in DOMAIN history : history'[n] = history[n]
                         /\ history'[Len(history')].hash = commits[i + 1].hexsha
          ELSE history' = history]_vars

\* two records, then a commit that changes the set and is not recorded, the
\* two records as they were
C16_Witness ==
    /\ pc = "loop" /\ i = 3 /\ Len(history) = 2
    /\ Recorded(1) /\ Recorded(2) /\ ~Recorded(3) /\ Changed(3)
    /\ history[1].hash = commits[1].hexsha
    /\ history[2].hash = commits[2].hexsha

(***************************************************************************)
(* Shape of the history (specification Spec)                               *)
(***************************************************************************)

\* the record emitted first: the first of the list during the walk, the last
\* of the list analyze_repo returned
Oldest == IF pc \in {"returned", "done"} THEN history[Len(history)] ELSE history[1]

\* C19: whenever the history has a record, the record emitted first is the
\* record of the first commit of the walk with a non-empty set, it has an
\* empty diff.removed and added_count = total_permissions, and every other
\* record is of a commit whose message contains "Auto-update" or, in any
\* case, "release".
C19_Shape ==
    history # <<>> =>
        /\ \E k \in 1..i :
              /\ SetAt(k) # {}
              /\ \A j \in 1..(k - 1) : SetAt(j) = {}
              /\ Oldest.hash = commits[k].hexsha
        /\ Oldest.diff.removed = <<>>
        /\ Oldest.stats.added_count = Oldest.stats.total_permissions
        /\ \A n \in DOMAIN history :
              history[n] # Oldest => Marked(PosOf(history[n].hash))

\* a returned history of two records: the older of the first commit, which
\* is unmarked; the second commit changed the set without a marker and has no
\* record; the newer record is of the third commit, which is marked
C19_Witness ==
    /\ pc = "returned" /\ Len(commits) = 3 /\ Len(history) = 2
    /\ SetAt(1) # {} /\ ~Marked(1)
    /\ history[2].hash = commits[1].hexsha
    /\ Changed(2) /\ ~Marked(2) /\ ~Recorded(2)
    /\ history[1].hash = commits[3].hexsha /\ Marked(3)

(***************************************************************************)
(* JSON literals (specification SpecParse)                                 *)
(***************************************************************************)

\* C20: for non-empty content that json.loads reads as a number, a string,
\* true, false or null, parse_permissions returns the empty set, also when
\* the content is a plain-text file of that one line; and when json.loads
\* reads the content, the result is not the set of the content's lines.
C20_ScalarEmpty ==
    (parsed # NotCalled /\ content.some /\ content.s # "") =>
        /\ origin.t \in {"num", "str", "null", "bool"} => parsed = Returned({})
        /\ (origin.t = "text" /\ origin.v \in LiteralLines) => parsed = Returned({})
        /\ (/\ origin.t = "text"
            /\ json_loads(content.s).ok
            /\ json_loads(content.s).val.t \notin {"list", "dict"})
              => parsed = Returned({})
        /\ (origin.t = "text" /\ json_loads(content.s).ok)
              => parsed # Returned({Str(line) : line \in TrimmedLines(content.s)})
        /\ (origin.t # "text" /\ parsed.raised = "none")
              => parsed.perms # {Str(content.s)}

\* the one-line file "true": the empty set, not {"true"}
C20_Witness ==
    /\ origin = [t |-> "text", v |-> "true\n"]
    /\ json_loads(content.s) = [ok |-> TRUE, val |-> [t |-> "bool", v |-> "True"]]
    /\ TrimmedLines(content.s) = {"true"}
    /\ parsed = Returned({})

(***************************************************************************)
(* Termination of the walk (specification FairSpec)                        *)
(***************************************************************************)

\* C18: the walk of a valid, non-bare repository processes the commits one
\* by one from the oldest to the newest, each once; it reaches the end of
\* the loop after the last commit and returns, with at most as many records
\* as there are commits, and once it has returned it takes no further step.
C18_FullPass ==
    /\ [][(pc = "loop" /\ i' # i) => (i' = i + 1 /\ i < Len(commits))]_vars
    /\ [][(pc \in {"returned", "done"})
             => (i' = i /\ prev_perms' = prev_perms /\ history' = history)]_vars
    /\ (repo_path = "valid" /\ pc = "loop")
          ~> (/\ pc = "returned"
              /\ i = Len(commits)
              /\ Len(history) <= Len(commits))

(***************************************************************************)
(* The walk in two passes (specification SpecTwoPhase)                     *)
(***************************************************************************)

\* C17: when the sets of all commits are extracted first, in any order, and
\* the comparison, diff and filter then run over them in commit order, the
\* history returned is the history analyze_repo returns for the same commits;
\* and the two passes end with an exception only if analyze_repo does.
C17_TwoPhase ==
    /\ pc = "returned" => analyze_repo(commits) = [raised |-> "none", history |-> history]
    /\ pc = "raised" => analyze_repo(commits).raised # "none"

\* three different sets collected; the history of two records, which is the
\* one the single walk returns
C17_Witness ==
    /\ pc = "returned" /\ Len(commits) = 3 /\ Len(history) = 2
    /\ sets[1].perms # sets[2].perms /\ sets[2].perms # sets[3].perms
    /\ analyze_repo(commits).history = history

====
